---- MODULE Spec2Model ----
(***************************************************************************)
(* Model of the connect-four engine of src/src/main.rs: the bit-packed     *)
(* Board, Game::make_move with its single-cell win check, the gravity flip *)
(* every second round and the full re-scan, and the rubot::Game adapter.   *)
(*                                                                         *)
(* The program plays on a 7 x 6 board for runs of 4.  Its state space is   *)
(* far beyond exhaustive search, so the three sizes are scaled down        *)
(* together: BOARD_WIDTH x BOARD_HEIGHT cells, runs of RUN.  With 3 x 3    *)
(* and runs of 3 every axis can hold a run, the board can fill up, and, as *)
(* on 7 x 6, the last cell is filled while gravity points down             *)
(* (WIDTH*HEIGHT mod 4 is 1 or 2).  On 7 x 6 a line is longer than a run,  *)
(* so a ray of check_win can meet a gap with a piece behind it; on 3 x 3   *)
(* that takes runs of 2.  The run length is therefore held in `run`: games *)
(* are played for runs of RUN_OF_GAME, and check_win is also applied, to   *)
(* arbitrary boards, for runs of RUN_OF_GRID.                              *)
(***************************************************************************)
EXTENDS Integers, Sequences, FiniteSets, TLC

VARIABLES
    state,          \* Game.state : Board
    current_colour, \* Game.current_colour
    winner,         \* Game.winner : Option<Winner>
    flipping,       \* Game.flipping
    round,          \* Game.round : u8
    ret,            \* what the last make_move, execute or check_win call returned
    run             \* the run length that wins: the program's 4

vars == <<state, current_colour, winner, flipping, round, ret, run>>

\* ---- bounds of the model ------------------------------------------------
BOARD_WIDTH == 3
BOARD_HEIGHT == 3
\* the run length of the games played
RUN_OF_GAME == 3
\* the shorter run length, for check_win on arbitrary boards
RUN_OF_GRID == 2

\* the length of a winning run: the 4 of `1..=4` and `x >= 4` in check_win
RUN == run

\* ---- primitives -----------------------------------------------------------
None == "None"

\* Option<u8> / Option<Column>: the empty or the one-element sequence
Nothing == <<>>

Some(v) == <<v>>

Colour == {"Red", "Yellow"}

\* mutant: the colour is not inverted
invert_same(c) == c

invert(c) == IF c = "Red" THEN "Yellow" ELSE "Red"

to_bool(c) == c = "Red"

from_bool(v) == IF v THEN "Red" ELSE "Yellow"

from_colour(c) == c

to_colour(w) == IF w \in Colour THEN w ELSE None

\* Column::all(): the columns in ascending order (indices 0 .. BOARD_WIDTH-1)
Columns == 0 .. (BOARD_WIDTH - 1)

Rows == 0 .. (BOARD_HEIGHT - 1)

Cells == 0 .. (BOARD_WIDTH * BOARD_HEIGHT - 1)

\* Column::offset: i16 sum, truncated to u8, converted back to a Column
offset(column, off) ==
    LET v  == column + off
        v8 == v % 256
    IN  IF v8 < BOARD_WIDTH THEN Some(v8) ELSE Nothing

row_offset(row, off) ==
    LET v == row + off
    IN  IF v < 0 \/ v >= BOARD_HEIGHT THEN Nothing ELSE Some(v)

\* ---- Board ------------------------------------------------------------------
BoardNew ==
    [ heights      |-> [c \in Columns |-> 0],
      present      |-> [i \in Cells |-> FALSE],
      tiles        |-> [i \in Cells |-> FALSE],
      gravity_down |-> TRUE ]

column_height(b, column) == b.heights[column]

\* mutant: off by one, a column counts as full one piece too early
column_full_early(b, column) == column_height(b, column) >= BOARD_HEIGHT - 1

column_full(b, column) == column_height(b, column) >= BOARD_HEIGHT

index_of(column, height) == column * BOARD_HEIGHT + height

\* mutant: the piece is written at row `height` whatever the orientation
place_on_column_down(b, column, colour) ==
    LET idx == index_of(column, column_height(b, column))
    IN  [ b EXCEPT !.tiles[idx]      = to_bool(colour),
                   !.present[idx]    = TRUE,
                   !.heights[column] = (@ + 1) % 256 ]

\* mutant: one placement counts as two pieces in the column
place_on_column_twice(b, column, colour) ==
    LET h0     == column_height(b, column)
        height == IF b.gravity_down THEN h0 ELSE BOARD_HEIGHT - (h0 + 1)
        idx    == index_of(column, height)
    IN  [ b EXCEPT !.tiles[idx]      = to_bool(colour),
                   !.present[idx]    = TRUE,
                   !.heights[column] = (@ + 2) % 256 ]

place_on_column(b, column, colour) ==
    LET h0     == column_height(b, column)
        height == IF b.gravity_down THEN h0 ELSE BOARD_HEIGHT - (h0 + 1)
        idx    == index_of(column, height)
    IN  [ b EXCEPT !.tiles[idx]      = to_bool(colour),
                   !.present[idx]    = TRUE,
                   !.heights[column] = (@ + 1) % 256 ]

piece_at(b, column, height) ==
    LET idx == index_of(column, height)
    IN  IF b.present[idx] THEN from_bool(b.tiles[idx]) ELSE None

\* ---- Game::flip -------------------------------------------------------------
\* BitSlice::shift_right on the H-bit window starting at idx: every bit moves
\* away from index 0 by `by`; the vacated low bits become 0.
shift_right(bits, idx, by) ==
    [ i \in Cells |->
        IF i < idx \/ i >= idx + BOARD_HEIGHT THEN bits[i]
        ELSE IF i - idx >= by THEN bits[i - by] ELSE FALSE ]

\* mutant: the high bits that shift_left vacates keep their old value
shift_left_keep(bits, idx, by) ==
    [ i \in Cells |->
        IF i < idx \/ i >= idx + BOARD_HEIGHT THEN bits[i]
        ELSE IF (i - idx) + by < BOARD_HEIGHT THEN bits[i + by] ELSE bits[i] ]

\* BitSlice::shift_left: every bit moves towards index 0 by `by`; the vacated
\* high bits become 0.
shift_left(bits, idx, by) ==
    [ i \in Cells |->
        IF i < idx \/ i >= idx + BOARD_HEIGHT THEN bits[i]
        ELSE IF (i - idx) + by < BOARD_HEIGHT THEN bits[i + by] ELSE FALSE ]

\* mutant: the column is mirrored, so the piece on the old floor lands on
\* the new floor
flip_column_mirror(b, column) ==
    LET idx == index_of(column, 0)
        mirror(bits) ==
            [ i \in Cells |->
                IF i < idx \/ i >= idx + BOARD_HEIGHT THEN bits[i]
                ELSE bits[idx + (BOARD_HEIGHT - 1 - (i - idx))] ]
    IN  [ b EXCEPT !.present = mirror(@), !.tiles = mirror(@) ]

flip_column(b, column) ==
    LET idx   == index_of(column, 0)
        shift == BOARD_HEIGHT - column_height(b, column)
    IN  IF column_height(b, column) = 0 THEN b
        ELSE IF b.gravity_down
             THEN [ b EXCEPT !.present = shift_right(@, idx, shift),
                             !.tiles   = shift_right(@, idx, shift) ]
             ELSE [ b EXCEPT !.present = shift_left(@, idx, shift),
                             !.tiles   = shift_left(@, idx, shift) ]

RECURSIVE flip_columns(_, _)
flip_columns(b, column) ==
    IF column >= BOARD_WIDTH THEN b
    ELSE flip_columns(flip_column(b, column), column + 1)

\* mutant: the columns are shifted but the orientation flag is not toggled
flip_no_toggle(b) == flip_columns(b, 0)

flip(b) ==
    LET shifted == flip_columns(b, 0)
    IN  [ shifted EXCEPT !.gravity_down = ~ b.gravity_down ]

\* ---- Game::check_win --------------------------------------------------------
\* (dx, dy, dir_idx)   0:\ 1:| 2:/ 3:-
DIRECTIONS ==
    << <<-1,  1, 0>>, << 0,  1, 1>>, << 1,  1, 2>>, <<-1,  0, 3>>,
       << 1,  0, 3>>, <<-1, -1, 2>>, << 0, -1, 1>>, << 1, -1, 0>> >>

\* mutant: a ray is not stopped by a cell that is not `colour`, it goes on
\* counting behind it
RECURSIVE check_direction_resumes(_, _, _, _, _, _, _)
check_direction_resumes(b, column, height, colour, i, depth, n) ==
    IF depth > RUN THEN n
    ELSE LET check_col == offset(column, DIRECTIONS[i][1] * depth)
             check_row == row_offset(height, DIRECTIONS[i][2] * depth)
         IN  IF check_col = Nothing
                 THEN check_direction_resumes(b, column, height, colour, i, depth + 1, n)
             ELSE IF check_row = Nothing
                 THEN check_direction_resumes(b, column, height, colour, i, depth + 1, n)
             ELSE IF piece_at(b, check_col[1], check_row[1]) # colour
                 THEN check_direction_resumes(b, column, height, colour, i, depth + 1, n)
             ELSE check_direction_resumes(b, column, height, colour, i, depth + 1, n + 1)

\* The loops of check_win for one ray i, from the given depth outwards, with
\* `n` cells counted so far.  The source runs depth-major over all eight rays;
\* ray i reads and writes only stopped_checking_direction[i] and adds only to
\* its own axis, so each ray is followed on its own here: an offset that
\* leaves the board is skipped (`continue`), a cell that is not `colour`
\* stops the ray for good, a cell of `colour` counts.
RECURSIVE check_direction(_, _, _, _, _, _, _)
check_direction(b, column, height, colour, i, depth, n) ==
    IF depth > RUN THEN n
    ELSE LET check_col == offset(column, DIRECTIONS[i][1] * depth)
             check_row == row_offset(height, DIRECTIONS[i][2] * depth)
         IN  IF check_col = Nothing
                 THEN check_direction(b, column, height, colour, i, depth + 1, n)
             ELSE IF check_row = Nothing
                 THEN check_direction(b, column, height, colour, i, depth + 1, n)
             ELSE IF piece_at(b, check_col[1], check_row[1]) # colour
                 THEN n
             ELSE check_direction(b, column, height, colour, i, depth + 1, n + 1)

\* count_in_direction[dir_idx] after the loops: 1 plus what its rays counted
RECURSIVE count_in_direction(_, _, _, _, _, _)
count_in_direction(b, column, height, colour, dir_idx, i) ==
    IF i > Len(DIRECTIONS) THEN 1
    ELSE count_in_direction(b, column, height, colour, dir_idx, i + 1)
         + ( IF DIRECTIONS[i][3] = dir_idx
             THEN check_direction(b, column, height, colour, i, 1, 0)
             ELSE 0 )

\* mutant: the tie test stops at the first full column
board_full_any(b) == \E col \in Columns : column_full(b, col)

board_full(b) == \A col \in Columns : column_full(b, col)

\* mutant: a run must be longer than RUN to win
check_win_longer(b, column, height) ==
    LET colour == piece_at(b, column, height)
    IN  IF colour = None THEN None
        ELSE IF \E dir_idx \in 0..3 :
                   count_in_direction(b, column, height, colour, dir_idx, 1) > RUN
             THEN from_colour(colour)
        ELSE IF ~ board_full(b) THEN None
        ELSE "Tie"

\* mutant: a full board without a run is not a tie
check_win_no_tie(b, column, height) ==
    LET colour == piece_at(b, column, height)
    IN  IF colour = None THEN None
        ELSE IF \E dir_idx \in 0..3 :
                   count_in_direction(b, column, height, colour, dir_idx, 1) >= RUN
             THEN from_colour(colour)
        ELSE None

check_win(b, column, height) ==
    LET colour == piece_at(b, column, height)
    IN  IF colour = None THEN None
        ELSE IF \E dir_idx \in 0..3 :
                   count_in_direction(b, column, height, colour, dir_idx, 1) >= RUN
             THEN from_colour(colour)
        ELSE IF ~ board_full(b) THEN None
        ELSE "Tie"

\* ---- Game::check_win_all -----------------------------------------------------
RECURSIVE check_win_from(_, _, _)
check_win_from(b, c, h) ==
    IF c >= BOARD_WIDTH THEN None
    ELSE IF h >= BOARD_HEIGHT THEN check_win_from(b, c + 1, 0)
    ELSE LET win == check_win(b, c, h)
         IN  IF win # None THEN win ELSE check_win_from(b, c, h + 1)

\* mutant: the re-scan after the round bookkeeping is left out
check_win_all_skipped(b) == None

check_win_all(b) == check_win_from(b, 0, 0)

\* ---- Game::make_move ---------------------------------------------------------
Ok == <<"Ok">>
GameOver == <<"Err", "GameOver">>
ColumnFull(column) == <<"Err", "ColumnFull", column>>

\* the Game value held in the variables
Game == [ state          |-> state,
          current_colour |-> current_colour,
          winner         |-> winner,
          flipping       |-> flipping,
          round          |-> round ]

\* mutant: a decided game still accepts moves
is_finished_never(g) == FALSE

is_finished(g) == g.winner # None

\* mutant: the round bookkeeping and the flip also run on the move that the
\* check of the placed cell decides
make_move_runs_on(g, column) ==
    IF is_finished(g) THEN [ game |-> g, ret |-> GameOver ]
    ELSE IF column_full(g.state, column) THEN [ game |-> g, ret |-> ColumnFull(column) ]
    ELSE
      LET placed  == place_on_column(g.state, column, g.current_colour)
          next    == invert(g.current_colour)
          height  == column_height(placed, column) - 1
          first   == check_win(placed, column, height)
          round1  == (g.round + 1) % 256
          do_flip == round1 = 2 /\ g.flipping
          round2  == IF do_flip THEN 0 ELSE round1
          board   == IF do_flip THEN flip(placed) ELSE placed
          second  == IF first # None THEN first ELSE check_win_all(board)
      IN  [ game |-> [ g EXCEPT !.state = board, !.current_colour = next,
                                !.winner = second, !.round = round2 ],
            ret  |-> Ok ]

\* mutant: every second round flips, whatever `flipping` says
make_move_always_flips(g, column) ==
    IF is_finished(g) THEN [ game |-> g, ret |-> GameOver ]
    ELSE IF column_full(g.state, column) THEN [ game |-> g, ret |-> ColumnFull(column) ]
    ELSE
      LET placed == place_on_column(g.state, column, g.current_colour)
          next   == invert(g.current_colour)
          height == column_height(placed, column) - 1
          first  == check_win(placed, column, height)
      IN  IF first # None
          THEN [ game |-> [ g EXCEPT !.state = placed, !.current_colour = next,
                                     !.winner = first ],
                 ret  |-> Ok ]
          ELSE
            LET round1  == (g.round + 1) % 256
                do_flip == round1 = 2
                round2  == IF do_flip THEN 0 ELSE round1
                board   == IF do_flip THEN flip(placed) ELSE placed
                second  == check_win_all(board)
            IN  [ game |-> [ g EXCEPT !.state = board, !.current_colour = next,
                                      !.winner = second, !.round = round2 ],
                  ret  |-> Ok ]

\* make_move: the Game after the call and the value returned
make_move(g, column) ==
    IF is_finished(g) THEN [ game |-> g, ret |-> GameOver ]
    ELSE IF column_full(g.state, column) THEN [ game |-> g, ret |-> ColumnFull(column) ]
    ELSE
      LET placed == place_on_column(g.state, column, g.current_colour)
          next   == invert(g.current_colour)
          height == column_height(placed, column) - 1
          first  == check_win(placed, column, height)
      IN  IF first # None
          THEN [ game |-> [ g EXCEPT !.state = placed, !.current_colour = next,
                                     !.winner = first ],
                 ret  |-> Ok ]
          ELSE
            LET round1  == (g.round + 1) % 256
                do_flip == round1 = 2 /\ g.flipping
                round2  == IF do_flip THEN 0 ELSE round1
                board   == IF do_flip THEN flip(placed) ELSE placed
                second  == check_win_all(board)
            IN  [ game |-> [ g EXCEPT !.state = board, !.current_colour = next,
                                      !.winner = second, !.round = round2 ],
                  ret  |-> Ok ]

\* ---- AllowedColumnsIterator and <Game as rubot::Game>::actions ---------------
\* the `allowed` bit array: one bit per column
new_empty == [ idx \in Columns |-> FALSE ]

\* mutant: the negation of column_full is lost
from_board_inverted(b) == [ idx \in Columns |-> column_full(b, idx) ]

from_board(b) == [ idx \in Columns |-> ~ column_full(b, idx) ]

allowed_columns(b) == from_board(b)

\* into_iter: the set bits by ascending index, each converted to its Column
RECURSIVE into_iter_from(_, _)
into_iter_from(allowed, idx) ==
    IF idx >= BOARD_WIDTH THEN << >>
    ELSE ( IF allowed[idx] THEN << idx >> ELSE << >> )
         \o into_iter_from(allowed, idx + 1)

into_iter(allowed) == into_iter_from(allowed, 0)

\* actions(player): (is it player's turn, the iterator)
actions(g, player) ==
    << player = g.current_colour,
       IF is_finished(g) THEN new_empty ELSE allowed_columns(g.state) >>

\* ---- <Game as rubot::Game>::execute --------------------------------------------
Fitness(f) == <<"Fitness", f>>

\* the unwrap of an Err: the thread panics
Panic == <<"Panic">>

\* mutant: a tied game counts as lost
execute_tie_as_loss(g, action, player) ==
    LET r == make_move(g, action)
        c == IF r.game.winner = None THEN None ELSE to_colour(r.game.winner)
    IN  IF r.ret # Ok THEN [ game |-> r.game, ret |-> Panic ]
        ELSE [ game |-> r.game,
               ret  |-> IF r.game.winner = None THEN Fitness("Tie")
                        ELSE IF c = player THEN Fitness("Win")
                        ELSE Fitness("Loss") ]

\* execute: make_move, unwrap, and the fitness of the resulting winner for
\* `player`; winner().and_then(to_colour) is None for None and for Tie
execute(g, action, player) ==
    LET r == make_move(g, action)
        c == IF r.game.winner = None THEN None ELSE to_colour(r.game.winner)
    IN  IF r.ret # Ok THEN [ game |-> r.game, ret |-> Panic ]
        ELSE [ game |-> r.game,
               ret  |-> IF c = None THEN Fitness("Tie")
                        ELSE IF c = player THEN Fitness("Win")
                        ELSE Fitness("Loss") ]

\* ---- the state machine ---------------------------------------------------------
\* Game::new(starting_colour, flipping)
Init ==
    /\ state = BoardNew
    /\ current_colour \in Colour
    /\ winner = None
    /\ flipping \in BOOLEAN
    /\ round = 0
    /\ ret = Ok
    /\ run = RUN_OF_GAME

MakeMove(column) ==
    \E r \in {make_move(Game, column)} :
        /\ state' = r.game.state
        /\ current_colour' = r.game.current_colour
        /\ winner' = r.game.winner
        /\ flipping' = r.game.flipping
        /\ round' = r.game.round
        /\ ret' = r.ret
        /\ run' = run

Next == \E column \in Columns : MakeMove(column)

Spec == Init /\ [][Next]_vars

\* the search of rubot::Bot::select: execute is applied, for either player, to
\* an action that actions() of the position yields
Execute(action, player) ==
    /\ \E n \in 1 .. Len(into_iter(actions(Game, player)[2])) :
           into_iter(actions(Game, player)[2])[n] = action
    /\ \E r \in {execute(Game, action, player)} :
           /\ state' = r.game.state
           /\ current_colour' = r.game.current_colour
           /\ winner' = r.game.winner
           /\ flipping' = r.game.flipping
           /\ round' = r.game.round
           /\ ret' = r.ret
           /\ run' = run

NextSearch ==
    \/ \E column \in Columns : MakeMove(column)
    \/ \E action \in Columns : \E player \in Colour : Execute(action, player)

SpecSearch == Init /\ [][NextSearch]_vars

\* ---- check_win as a function of the board -----------------------------------
\* Any contents of present and tiles (the tiles bit of an absent cell is 0,
\* as Board::new and the shifts of flip leave it); heights counts the
\* present cells of each column; either run length.  check_win is applied
\* once, to any cell of the board drawn.
BoardOf(cells) ==
    [ heights      |-> [ c \in Columns |->
                           Cardinality({ r \in Rows :
                               cells[c * BOARD_HEIGHT + r] # "None" }) ],
      present      |-> [ i \in Cells |-> cells[i] # "None" ],
      tiles        |-> [ i \in Cells |-> cells[i] = "Red" ],
      gravity_down |-> TRUE ]

InitCheckWin ==
    /\ \E cells \in [ Cells -> {"None", "Red", "Yellow"} ] : state = BoardOf(cells)
    /\ current_colour = "Red"
    /\ winner = None
    /\ flipping = FALSE
    /\ round = 0
    /\ ret = Ok
    /\ run \in RUN_OF_GRID .. RUN_OF_GAME

CheckWin(column, height) ==
    /\ ret = Ok
    /\ ret' = << "check_win", column, height, check_win(state, column, height) >>
    /\ UNCHANGED << state, current_colour, winner, flipping, round, run >>

NextCheckWin == \E column \in Columns : \E height \in Rows : CheckWin(column, height)

SpecCheckWin == InitCheckWin /\ [][NextCheckWin]_vars

\* =========================================================================
\* Reference notions for the properties below.  They read the board as a
\* grid of cells and are written without the operators of the model above.
\* =========================================================================
Cell(b, c, r) ==
    IF b.present[c * BOARD_HEIGHT + r]
    THEN (IF b.tiles[c * BOARD_HEIGHT + r] THEN "Red" ELSE "Yellow")
    ELSE "None"

\* the four axes: horizontal, vertical, the two diagonals
Axes == { <<1, 0>>, <<0, 1>>, <<1, 1>>, <<1, -1>> }

OnBoard(c, r) == c \in Columns /\ r \in Rows

\* RUN consecutive on-board cells, starting at (c, r) along axis a, all of
\* colour k
Window(b, c, r, a, k) ==
    \A j \in 0 .. (RUN - 1) :
        /\ OnBoard(c + j * a[1], r + j * a[2])
        /\ Cell(b, c + j * a[1], r + j * a[2]) = k

\* the cell (c, r) lies in a run of at least RUN cells of its own colour
RunThrough(b, c, r) ==
    /\ Cell(b, c, r) # "None"
    /\ \E a \in Axes : \E j \in 0 .. (RUN - 1) :
           Window(b, c - j * a[1], r - j * a[2], a, Cell(b, c, r))

\* the board holds a run of at least RUN cells of colour k
HasRun(b, k) ==
    \E c \in Columns : \E r \in Rows : \E a \in Axes : Window(b, c, r, a, k)

NoRun(b) == ~ HasRun(b, "Red") /\ ~ HasRun(b, "Yellow")

Pieces(b) == Cardinality({ i \in Cells : b.present[i] })

\* the row on which a piece dropped into column c comes to rest
LandingRow(b, c) ==
    IF b.gravity_down THEN b.heights[c] ELSE BOARD_HEIGHT - 1 - b.heights[c]

\* the board with one more piece of colour k resting in column c
Dropped(b, c, k) ==
    [ b EXCEPT !.present[c * BOARD_HEIGHT + LandingRow(b, c)] = TRUE,
               !.tiles[c * BOARD_HEIGHT + LandingRow(b, c)] = (k = "Red"),
               !.heights[c] = @ + 1 ]

\* this step is a successful make_move(c): column c, not full, grew by one
Played(c) ==
    /\ winner = None
    /\ state.heights[c] < BOARD_HEIGHT
    /\ state'.heights[c] = state.heights[c] + 1

\* =========================================================================
\* C1  A piece that completes a run of RUN or more of its colour, on the
\*     board as it stands right after the placement, makes its colour the
\*     winner when that make_move returns.
\* =========================================================================
C1_CompletingPieceWins ==
    [][ \A c \in Columns :
          ( Played(c)
            /\ RunThrough(Dropped(state, c, current_colour), c, LandingRow(state, c)) )
          => winner' = current_colour ]_vars

\* =========================================================================
\* C2  Between calls the verdict matches the board: winner is None exactly
\*     when the board holds no run of RUN cells of one colour and some
\*     column is not full; winner is Red (Yellow) only if the board holds a
\*     run of Red (Yellow) cells.
\* =========================================================================
C2_VerdictMatchesBoard ==
    /\ winner = None <=>
          ( NoRun(state) /\ \E c \in Columns : state.heights[c] < BOARD_HEIGHT )
    /\ winner = "Red" => HasRun(state, "Red")
    /\ winner = "Yellow" => HasRun(state, "Yellow")

\* a game that the re-scan after a gravity flip decided: the last piece went
\* to the player who is not the winner
C2_Witness ==
    /\ flipping
    /\ winner = "Red"
    /\ current_colour = "Red"
    /\ HasRun(state, "Red")

\* =========================================================================
\* C3  winner is Tie only when every column is full and the board holds no
\*     run; and a make_move that fills the last empty cell, leaving a board
\*     without a run, makes winner Tie on that move.
\* =========================================================================
C3_TieOnlyOnFullBoardWithoutRun ==
    winner = "Tie" =>
        /\ \A c \in Columns : state.heights[c] = BOARD_HEIGHT
        /\ NoRun(state)

C3_LastCellWithoutRunIsTie ==
    \A c \in Columns :
        ( /\ Played(c)
          /\ Pieces(state) = BOARD_WIDTH * BOARD_HEIGHT - 1
          /\ NoRun(state') )
        => winner' = "Tie"

C3_TieCorrectness ==
    /\ [] C3_TieOnlyOnFullBoardWithoutRun
    /\ [][ C3_LastCellWithoutRunIsTie ]_vars

C3_Witness ==
    /\ winner = "Tie"
    /\ flipping
    /\ Pieces(state) = BOARD_WIDTH * BOARD_HEIGHT

\* the whole Game, as make_move may change it
game_vars == <<state, current_colour, winner, flipping, round>>

\* =========================================================================
\* C4  Once winner is Some, every further make_move, on any column, returns
\*     Err(GameOver) and leaves the whole Game unchanged: heights, present,
\*     tiles, gravity, currentColour, round and winner.
\* =========================================================================
C4_TerminalImmutability ==
    [][ winner # None => ( ret' = GameOver /\ UNCHANGED game_vars ) ]_vars

\* make_move was called on a decided game
C4_Witness ==
    /\ winner # None
    /\ ret = GameOver

\* =========================================================================
\* C5  In an in-progress game make_move(c) on a full column returns
\*     Err(ColumnFull(c)) and leaves the whole Game unchanged; a piece is
\*     only ever placed in a column that is not full.
\* =========================================================================
C5_FullColumnRejected ==
    [][ winner = None =>
          \/ \E c \in Columns :
                /\ state.heights[c] = BOARD_HEIGHT
                /\ ret' = ColumnFull(c)
                /\ UNCHANGED game_vars
          \/ \E c \in Columns :
                /\ state.heights[c] < BOARD_HEIGHT
                /\ ret' = Ok
                /\ state'.heights = [ state.heights EXCEPT ![c] = @ + 1 ] ]_vars

\* make_move was called on a full column of a game in progress
C5_Witness ==
    /\ winner = None
    /\ \E c \in Columns : ret = ColumnFull(c) /\ state.heights[c] = BOARD_HEIGHT

\* =========================================================================
\* C6  In every reachable state and every column c: 0 <= heights[c] <=
\*     HEIGHT, and the present cells of the column are exactly the
\*     heights[c] cells next to the current floor (rows 0..heights[c]-1 with
\*     gravity down, rows HEIGHT-heights[c]..HEIGHT-1 with gravity up); so
\*     the cell a piece would be placed on is never present already.
\* =========================================================================
Stack(b, c) ==
    IF b.gravity_down
    THEN 0 .. (b.heights[c] - 1)
    ELSE (BOARD_HEIGHT - b.heights[c]) .. (BOARD_HEIGHT - 1)

C6_Occupancy ==
    \A c \in Columns :
        /\ state.heights[c] \in 0 .. BOARD_HEIGHT
        /\ { r \in Rows : state.present[c * BOARD_HEIGHT + r] } = Stack(state, c)
        /\ Cardinality({ r \in Rows : state.present[c * BOARD_HEIGHT + r] })
             = state.heights[c]
        /\ state.heights[c] < BOARD_HEIGHT
             => ~ state.present[c * BOARD_HEIGHT + LandingRow(state, c)]

\* gravity points up, after a piece was placed against the upper floor, and
\* the board has a partly filled and a full column
C6_Witness ==
    /\ ~ state.gravity_down
    /\ round = 1
    /\ \E c \in Columns : state.heights[c] \in 1 .. (BOARD_HEIGHT - 1)
    /\ \E c \in Columns : state.heights[c] = BOARD_HEIGHT

\* =========================================================================
\* C7  On every reachable board, two flips in a row with no placement in
\*     between restore present, tiles, heights and the gravity orientation.
\* =========================================================================
C7_FlipRoundTrip == flip(flip(state)) = state

\* a board that a flip produced, with a stack that is neither empty nor full
C7_Witness ==
    /\ flipping
    /\ ~ state.gravity_down
    /\ round = 0
    /\ \E c \in Columns : state.heights[c] \in 1 .. (BOARD_HEIGHT - 1)

\* =========================================================================
\* C8  The stacking order under a flip.
\* =========================================================================
\* the rows of column c from the floor outwards
RECURSIVE RowsFromFloor(_, _, _)
RowsFromFloor(b, c, n) ==
    IF n >= b.heights[c] THEN << >>
    ELSE << IF b.gravity_down THEN n ELSE BOARD_HEIGHT - 1 - n >>
         \o RowsFromFloor(b, c, n + 1)

\* the colours of column c read from the floor outwards
FromFloor(b, c) ==
    LET rows == RowsFromFloor(b, c, 0)
    IN  [ n \in 1 .. Len(rows) |-> Cell(b, c, rows[n]) ]

\* the cells of column c from the top row down to row 0, empty ones included
TopDown(b, c) == [ n \in 1 .. BOARD_HEIGHT |-> Cell(b, c, BOARD_HEIGHT - n) ]

\* the colours of column c from the top row down, empty cells left out
RECURSIVE Squeeze(_)
Squeeze(seq) ==
    IF seq = << >> THEN << >>
    ELSE ( IF Head(seq) = "None" THEN << >> ELSE << Head(seq) >> ) \o Squeeze(Tail(seq))

Reverse(seq) == [ n \in 1 .. Len(seq) |-> seq[Len(seq) + 1 - n] ]

PresentIn(b, c) == Cardinality({ r \in Rows : Cell(b, c, r) # "None" })

\* C8 as claimed: flip keeps the number of present cells of every column,
\*     and the colours read outward from the old floor before the flip are
\*     the colours read outward from the new floor after it (the piece on
\*     the old floor rests on the new floor).
C8_OrderFromFloorKept ==
    \A c \in Columns :
        /\ PresentIn(flip(state), c) = PresentIn(state, c)
        /\ FromFloor(flip(state), c) = FromFloor(state, c)

\* C8 as amended: flip keeps the number of present cells of every column
\*     and slides the stack to the other end without reordering it: the
\*     colours from the top row down are the same before and after, so the
\*     colours read outward from the new floor are those read outward from
\*     the old floor in reverse (the piece furthest from the old floor rests
\*     on the new floor).
C8_FlipSlidesStack ==
    \A c \in Columns :
        /\ PresentIn(flip(state), c) = PresentIn(state, c)
        /\ Squeeze(TopDown(flip(state), c)) = Squeeze(TopDown(state, c))
        /\ FromFloor(flip(state), c) = Reverse(FromFloor(state, c))

\* a board that a flip produced, with a column that holds both colours
C8_Witness ==
    /\ flipping
    /\ ~ state.gravity_down
    /\ round = 0
    /\ \E c \in Columns :
          /\ state.heights[c] \in 2 .. (BOARD_HEIGHT - 1)
          /\ \E m, n \in 1 .. state.heights[c] :
                FromFloor(state, c)[m] # FromFloor(state, c)[n]

\* =========================================================================
\* C9  The flip cadence with flipping enabled.
\* =========================================================================
Toggled == state'.gravity_down # state.gravity_down

\* the check of the placed cell, as make_move(c) runs it, yields a winner
DecidedOnPlacement(c) ==
    check_win(Dropped(state, c, current_colour), c, state.heights[c]) # None

\* every column of b is flush against the floor of b's orientation
Flush(b) ==
    \A c \in Columns :
        { r \in Rows : Cell(b, c, r) # "None" } = Stack(b, c)

\* round is 0 or 1 between moves; while the game is in progress the gravity
\* has toggled once for every two pieces placed (first on the 2nd piece)
C9_Cadence ==
    flipping =>
        /\ round \in {0, 1}
        /\ winner = None =>
              /\ round = Pieces(state) % 2
              /\ state.gravity_down = ((Pieces(state) \div 2) % 2 = 0)

\* what a toggle does: round goes from 1 to 0, the heights are those after
\* the placement, and every stack moved from one end of its column to the
\* other
ToggleEffect(c) ==
    /\ round = 1
    /\ round' = 0
    /\ state'.heights = [ state.heights EXCEPT ![c] = @ + 1 ]
    /\ Flush(Dropped(state, c, current_colour))
    /\ Flush(state')

\* C9 as claimed: the gravity toggles exactly on every second successful
\*     non-terminal make_move, where round returns to 0; round is 0 or 1
\*     between moves; the flip keeps the heights and leaves every stack
\*     flush against the opposite end of its column.
C9_TogglesOnNonTerminalMoves ==
    /\ [] C9_Cadence
    /\ [][ flipping =>
              /\ Toggled <=> \E c \in Columns :
                               Played(c) /\ round = 1 /\ winner' = None
              /\ \A c \in Columns : ( Played(c) /\ Toggled ) => ToggleEffect(c) ]_vars

\* C9 as amended: the gravity toggles exactly on every second successful
\*     make_move that the check of the placed cell does not decide, also
\*     when the re-scan after the flip then decides the game; the rest as
\*     claimed.
C9_TogglesOnUndecidedPlacements ==
    /\ [] C9_Cadence
    /\ [][ flipping =>
              /\ Toggled <=> \E c \in Columns :
                               Played(c) /\ round = 1 /\ ~ DecidedOnPlacement(c)
              /\ \A c \in Columns : ( Played(c) /\ Toggled ) => ToggleEffect(c) ]_vars

\* the flip of a second move brought a run into line and decided the game
C9_Witness ==
    /\ flipping
    /\ round = 0
    /\ Pieces(state) > 0
    /\ Pieces(state) % 2 = 0
    /\ winner \in Colour
    /\ \E c \in Columns : state.heights[c] \in 1 .. (BOARD_HEIGHT - 1)

\* =========================================================================
\* C10 actions(player): the flag is true iff player is currentColour; the
\*     columns it yields are none when the game is decided, and otherwise
\*     exactly the columns that are not full, each once, in ascending order.
\* =========================================================================
Ascending(seq) == \A m, n \in 1 .. Len(seq) : m < n => seq[m] < seq[n]

C10_Actions ==
    \A player \in Colour :
        LET r    == actions(Game, player)
            cols == into_iter(r[2])
        IN  /\ r[1] = (player = current_colour)
            /\ Ascending(cols)
            /\ { cols[n] : n \in 1 .. Len(cols) } =
                 IF winner # None THEN {}
                 ELSE { c \in Columns : state.heights[c] < BOARD_HEIGHT }

\* a game in progress with a full column and a column that is not full
C10_Witness ==
    /\ winner = None
    /\ \E c \in Columns : state.heights[c] = BOARD_HEIGHT
    /\ \E c \in Columns : state.heights[c] < BOARD_HEIGHT
    /\ Len(into_iter(actions(Game, current_colour)[2])) \in 1 .. (BOARD_WIDTH - 1)

\* =========================================================================
\* C11 For either player and every action that actions() yields, the
\*     make_move inside execute succeeds (the unwrap does not panic), and
\*     the fitness returned is Win iff the resulting winner is the player's
\*     colour, Loss iff it is the other colour, Tie iff it is None or Tie.
\* =========================================================================
C11_ExecuteOfAllowed ==
    \A player \in Colour :
        LET cols == into_iter(actions(Game, player)[2])
        IN  \A n \in 1 .. Len(cols) :
              LET r == execute(Game, cols[n], player)
                  w == r.game.winner
              IN  /\ make_move(Game, cols[n]).ret = Ok
                  /\ r.ret # Panic
                  /\ r.ret = Fitness("Win")  <=> w = player
                  /\ r.ret = Fitness("Loss") <=> ( w \in Colour /\ w # player )
                  /\ r.ret = Fitness("Tie")  <=> w \in {"None", "Tie"}

\* the three outcomes of execute, as left by the last call
C11_ExecuteReturned ==
    /\ ret # Panic
    /\ ret = Fitness("Tie") => winner \in {"None", "Tie"}
    /\ ret \in {Fitness("Win"), Fitness("Loss")} => winner \in Colour

\* C11 in every reachable position of the search: execute of an allowed
\*     action does not panic and grades the resulting winner as claimed
C11_Execute == C11_ExecuteOfAllowed /\ C11_ExecuteReturned

\* execute returned for a move whose gravity flip brought a run into line:
\* the game went to the player who did not move
C11_Witness ==
    /\ flipping
    /\ ret \in {Fitness("Win"), Fitness("Loss")}
    /\ round = 0
    /\ Pieces(state) > 0
    /\ Pieces(state) % 2 = 0
    /\ winner = current_colour


\* =========================================================================
\* C12 With flipping disabled the check of the placed cell alone produces
\*     the verdict of a move.
\* =========================================================================
\* a successful make_move(c) makes the mover the winner iff the placed piece
\* lies in a run of RUN or more; the winner on return is what the check of
\* the placed cell yields, so the re-scan after a placement that the check
\* does not decide yields no winner
C12_VerdictOfPlacedCell ==
    \A c \in Columns :
        Played(c) =>
            /\ winner' = current_colour <=>
                  RunThrough(Dropped(state, c, current_colour), c, LandingRow(state, c))
            /\ winner' = check_win(Dropped(state, c, current_colour), c, state.heights[c])
            /\ ~ DecidedOnPlacement(c) => winner' = None

\* Red and Yellow in turn in columns A and B: column A holds a Red pieces,
\* column B holds y Yellow pieces, the other columns are empty
C12_OnlyAB(a, y) ==
    /\ state.heights = [ c \in Columns |-> IF c = 0 THEN a ELSE IF c = 1 THEN y ELSE 0 ]
    /\ \A r \in 0 .. (a - 1) : Cell(state, 0, r) = "Red"
    /\ \A r \in 0 .. (y - 1) : Cell(state, 1, r) = "Yellow"

\* the instance A,B,A,B,...,A: no winner before Red's RUN-th piece in column
\* A, winner Red with it
C12_Instance ==
    \A a \in 0 .. RUN : \A y \in {a - 1, a} :
        ( y >= 0 /\ C12_OnlyAB(a, y) ) =>
            winner = IF a = RUN THEN "Red" ELSE "None"

\* C12 with flipping disabled, every successful move is decided by the
\*     check of the placed cell, the re-scan never adds a winner, and the
\*     instance A,B,A,B,...,A ends with winner Red on Red's RUN-th piece
C12_NoFlipVerdict ==
    /\ [][ ~ flipping => C12_VerdictOfPlacedCell ]_vars
    /\ [] ( ~ flipping => C12_Instance )

\* the end of the instance: Red's RUN-th piece in column A
C12_Witness ==
    /\ ~ flipping
    /\ C12_OnlyAB(RUN, RUN - 1)
    /\ winner = "Red"
    /\ current_colour = "Yellow"


\* =========================================================================
\* C13 The height of a column counts the successful make_move calls on it.
\* =========================================================================
\* a call make_move(c) that returns Ok adds one to heights[c] and leaves the
\* other heights alone; a call that returns Err leaves all heights alone
C13_CallCounted ==
    \A c \in Columns :
        MakeMove(c) =>
            IF ret' = Ok
            THEN state'.heights = [ state.heights EXCEPT ![c] = @ + 1 ]
            ELSE state'.heights = state.heights

\* C13 every height starts at 0, a successful make_move(c) adds exactly one
\*     to heights[c] and nothing to the others, a failed call adds nothing:
\*     so heights[c] is the number of successful make_move(c) calls so far
\*     (with or without inversions); and it never exceeds HEIGHT
C13_HeightInvariant ==
    /\ \A c \in Columns : state.heights[c] = 0
    /\ [][ C13_CallCounted ]_vars
    /\ [] ( \A c \in Columns : state.heights[c] <= BOARD_HEIGHT )

\* no inversion can have occurred, a call on a full column has just failed,
\* and the columns have different heights
C13_Witness ==
    /\ ~ flipping
    /\ winner = None
    /\ \E c \in Columns : ret = ColumnFull(c) /\ state.heights[c] = BOARD_HEIGHT
    /\ \E c \in Columns : state.heights[c] \in 1 .. (BOARD_HEIGHT - 1)
    /\ \E c \in Columns : state.heights[c] = 0


\* =========================================================================
\* C14 The cell handed to the check of the placed cell.
\* =========================================================================
\* the row that make_move(c) hands to check_win: the height of the column
\* after the placement, less one
C14_CheckedRow(c) ==
    column_height(place_on_column(state, c, current_colour), c) - 1

\* C14 in a successful make_move(c) the checked row is the row just
\*     written, heights[c] with gravity down and HEIGHT - heights[c] - 1
\*     with gravity up (heights before the placement), and the checked cell
\*     is present and holds the mover's colour
C14_CheckedCellIsPlacedCell ==
    [][ \A c \in Columns :
          Played(c) =>
            /\ C14_CheckedRow(c) = LandingRow(state, c)
            /\ piece_at(place_on_column(state, c, current_colour),
                        c, C14_CheckedRow(c)) = current_colour ]_vars


\* =========================================================================
\* C15 When the check of the placed cell yields a winner (a colour or Tie)
\*     in make_move(c), the call ends there: winner is that verdict, round
\*     is not incremented, no flip runs even with flipping enabled and
\*     round 1, the gravity orientation is unchanged, and the board on
\*     return is the board before the call with the one placed cell written
\*     and heights[c] one higher.
\* =========================================================================
C15_DecidingMoveStops ==
    [][ \A c \in Columns :
          ( Played(c) /\ DecidedOnPlacement(c) ) =>
            /\ winner' = check_win(Dropped(state, c, current_colour), c, state.heights[c])
            /\ winner' # None
            /\ round' = round
            /\ state'.gravity_down = state.gravity_down
            /\ state' = Dropped(state, c, current_colour)
            /\ \A i \in Cells :
                  i # c * BOARD_HEIGHT + LandingRow(state, c) =>
                      /\ state'.present[i] = state.present[i]
                      /\ state'.tiles[i] = state.tiles[i]
            /\ \A d \in Columns : d # c => state'.heights[d] = state.heights[d] ]_vars

\* flipping is enabled and the game was decided on a second move: round was
\* 1 and still is, the number of pieces is even, the columns were not moved
C15_Witness ==
    /\ flipping
    /\ winner # None
    /\ round = 1
    /\ Pieces(state) % 2 = 0
    /\ Pieces(state) > 0


\* =========================================================================
\* C16 check_win against a reference, on every board and every cell.
\* =========================================================================
\* the number of cells of colour k next to (c, r) along the ray (dx, dy), up
\* to the first cell that is off the board, empty or of the other colour,
\* looking at most RUN cells out
C16_Ray(b, c, r, dx, dy, k) ==
    Cardinality({ n \in 1 .. RUN :
        \A j \in 1 .. n :
            /\ OnBoard(c + j * dx, r + j * dy)
            /\ Cell(b, c + j * dx, r + j * dy) = k })

\* None for an empty cell; the colour k of the cell if on some axis 1 plus
\* the two opposite rays is at least RUN; otherwise Tie if every column is
\* full, else None
C16_Reference(b, c, r) ==
    LET k == Cell(b, c, r)
    IN  IF k = "None" THEN "None"
        ELSE IF \E a \in Axes :
                   1 + C16_Ray(b, c, r, a[1], a[2], k)
                     + C16_Ray(b, c, r, -a[1], -a[2], k) >= RUN
             THEN k
        ELSE IF \A col \in Columns : b.heights[col] = BOARD_HEIGHT THEN "Tie"
        ELSE "None"

\* C16 on every board and for every cell, what check_win(column, row)
\*     returns is what the reference gives
C16_CheckWinAgrees ==
    ret[1] = "check_win" => ret[4] = C16_Reference(state, ret[2], ret[3])

\* check_win returned None for a cell with a gap next to it and a piece of
\* its colour behind the gap, where counting that piece would make a run
C16_Witness ==
    /\ run = RUN_OF_GRID
    /\ ret = << "check_win", 0, 0, "None" >>
    /\ Cell(state, 0, 0) = "Red"
    /\ Cell(state, 1, 0) = "None"
    /\ Cell(state, 2, 0) = "Red"


\* =========================================================================
\* C17 Turn alternation.
\* =========================================================================
\* the number of pieces of colour k on the board
C17_Count(b, k) ==
    Cardinality({ i \in Cells : b.present[i] /\ (b.tiles[i] <=> k = "Red") })

\* a make_move that returns Ok adds one piece of the colour that was
\* current_colour, none of the other colour, and hands the turn to the other
\* colour, whether or not it decides the game; a make_move that returns Err
\* leaves current_colour as it was
C17_MoveAlternates ==
    \A c \in Columns :
        MakeMove(c) =>
            IF ret' = Ok
            THEN /\ current_colour' \in Colour \ {current_colour}
                 /\ C17_Count(state', current_colour) = C17_Count(state, current_colour) + 1
                 /\ C17_Count(state', current_colour') = C17_Count(state, current_colour')
            ELSE current_colour' = current_colour

\* after an even number of pieces the two colours have as many pieces each;
\* after an odd number the colour that is not to move has one more
C17_Balance ==
    C17_Count(state, IF current_colour = "Red" THEN "Yellow" ELSE "Red")
        - C17_Count(state, current_colour) = Pieces(state) % 2

\* C17 every successful make_move places a piece of current_colour and
\*     inverts current_colour, a failed one leaves it; so from the empty
\*     board current_colour is the starting colour exactly after an even
\*     number of moves, and the starting colour has as many pieces as the
\*     other colour or one more
C17_TurnAlternation ==
    /\ Pieces(state) = 0
    /\ [][ C17_MoveAlternates ]_vars
    /\ [] C17_Balance

\* the move that decided the game also handed over the turn: the winner
\* placed the last piece and the other colour is current_colour
C17_Witness ==
    /\ winner \in Colour
    /\ ret = Ok
    /\ current_colour # winner
    /\ Pieces(state) % 2 = 1
    /\ C17_Count(state, winner) = C17_Count(state, current_colour) + 1


\* =========================================================================
\* C18 No dead end and bounded play.
\* =========================================================================
\* while the game is in progress some column is not full, actions() yields
\* a column for the player to move, and fewer than WIDTH*HEIGHT pieces have
\* been placed
C18_NoDeadEnd ==
    winner = None =>
        /\ \E c \in Columns : state.heights[c] < BOARD_HEIGHT
        /\ actions(Game, current_colour)[1]
        /\ Len(into_iter(actions(Game, current_colour)[2])) > 0
        /\ Pieces(state) < BOARD_WIDTH * BOARD_HEIGHT

\* a make_move that returns Ok adds exactly one piece, one that returns Err
\* adds none
C18_MoveAddsOnePiece ==
    \A c \in Columns :
        MakeMove(c) =>
            Pieces(state') = Pieces(state) + (IF ret' = Ok THEN 1 ELSE 0)

\* C18 the board starts empty and every successful make_move adds exactly
\*     one piece, so the pieces count the successful moves; a game in
\*     progress always has a column that is not full and has seen fewer
\*     than WIDTH*HEIGHT successful moves, so the WIDTH*HEIGHT-th successful
\*     move at the latest leaves winner Some; flipping disabled or enabled
C18_BoundedPlay ==
    /\ Pieces(state) = 0 /\ winner = None
    /\ [][ C18_MoveAddsOnePiece ]_vars
    /\ [] C18_NoDeadEnd
    /\ [] ( Pieces(state) = BOARD_WIDTH * BOARD_HEIGHT => winner # None )

\* flipping is enabled and the game is still in progress with one empty
\* cell left
C18_Witness ==
    /\ flipping
    /\ winner = None
    /\ Pieces(state) = BOARD_WIDTH * BOARD_HEIGHT - 1
    /\ Len(into_iter(actions(Game, current_colour)[2])) = 1


\* =========================================================================
\* C19 With flipping disabled gravity is never inverted and written cells
\*     are permanent.
\* =========================================================================
\* a step changes the board, if at all, by dropping one piece: no flip ran;
\* and a cell that is present keeps its presence and its colour
C19_CellsPermanent ==
    /\ \/ state' = state
       \/ \E c \in Columns : state' = Dropped(state, c, current_colour)
    /\ \A c \in Columns : \A r \in Rows :
          Cell(state, c, r) # "None" => Cell(state', c, r) = Cell(state, c, r)

\* C19 with flipping disabled gravity_down is true in every reachable
\*     state, no step flips the board whatever the value of round, and a
\*     cell once present with a colour stays present with that colour
C19_NoFlipping ==
    /\ [] ( ~ flipping => state.gravity_down )
    /\ [][ ~ flipping => C19_CellsPermanent ]_vars

\* flipping is disabled and round has passed 2 more than once while pieces
\* lie on the floor
C19_Witness ==
    /\ ~ flipping
    /\ round > 4
    /\ state.gravity_down
    /\ \E c \in Columns : Cell(state, c, 0) # "None" /\ state.heights[c] >= 2


====
